---- MODULE Spec2Model ----
\* Session assembly of s3plot (src/src/fs.rs): directory discovery (find_files),
\* session build (open_files) and the application's open handlers
\* (try_open, open_dir_dialog, detect_files_being_dropped).
EXTENDS Integers, Sequences, FiniteSets, TLC

VARIABLES
    fsys,      \* the directory listing on disk: a set of directory entries
    custom,    \* PlotApp.custom.plots: the custom formula definitions
    version,   \* PlotApp.version
    data,      \* PlotApp.data   : Option<PlotData>
    error,     \* PlotApp.error  : Option<app::Error>
    files,     \* PlotApp.files  : Option<Files>
    opened,    \* history: the paths handed to File::open by the last open_files
    evals,     \* history: the formulas handed to eval::eval by the last open_files
    last       \* history: the last handler that ran and what it did

vars == <<fsys, custom, version, data, error, files, opened, evals, last>>

----------------------------------------------------------------------------
\* Bounds of the model.

\* Most bytes stored in the recording directory, over all its files together.
MaxTotalBytes == 4
\* Most entries of a directory in the discovery environments.
MaxEntries == 3
\* Most custom formulas of the application.
MaxCustom == 2

\* The bytes a log file holds: a timestamp byte at the odd positions, a sample
\* byte at the even ones.
Times == {0, 1}
Samples == {1}

----------------------------------------------------------------------------
\* Option and Result.

None == <<>>
Some(x) == <<x>>
Ok(x) == [ok |-> TRUE, val |-> x, err |-> <<>>]
Err(e) == [ok |-> FALSE, val |-> <<>>, err |-> e]

SeqsUpTo(S, n) == UNION {[1..k -> S] : k \in 0..n}

\* Every order in which the members of a finite set can be enumerated.
Orders(S) == {s \in [1..Cardinality(S) -> S] : \A i, j \in DOMAIN s : i # j => s[i] # s[j]}

----------------------------------------------------------------------------
\* Paths. A path is the directory it lies in, the stem of its file name and
\* its extension (None when the name has no dot), each a byte string.

DirOk == <<100>>            \* "d"
DirRaw == <<100, 255>>      \* "d" followed by the byte 0xFF: not UTF-8
DirGone == <<103>>          \* "g": no such directory
RecordingDirs == {DirOk, DirRaw}
Dirs == {DirOk, DirRaw, DirGone}

ExtBin == <<98, 105, 110>>  \* "bin"
ExtTxt == <<116, 120, 116>> \* "txt"
Temperature == <<116, 101, 109, 112, 101, 114, 97, 116, 117, 114, 101>>

Name(stem, ext) == [stem |-> stem, ext |-> ext]
PathOf(dir, name) == [dir |-> dir, stem |-> name.stem, ext |-> name.ext]

\* Over the alphabet of the model (ASCII bytes and 0xFF) a byte string is
\* UTF-8 exactly when it holds no byte above 127.
IsUtf8(bytes) == \A i \in DOMAIN bytes : bytes[i] < 128

\* Path::to_str: the path's text, None when the path is not UTF-8.
PathBytes(p) ==
    p.dir \o <<47>> \o p.stem \o (IF p.ext = None THEN <<>> ELSE <<46>> \o p.ext[1])
to_str(p) == IF IsUtf8(PathBytes(p)) THEN Some(PathBytes(p)) ELSE None

\* Option<&str>::unwrap_or_default().to_string()
unwrap_or_default(o) == IF o = None THEN <<>> ELSE o[1]

----------------------------------------------------------------------------
\* The file system. A directory entry is a name, whether it is a regular
\* file, and the bytes it holds. Both recording directories hold the listing
\* fsys (a recording and its copy); DirGone does not exist.

Entry(name, is_file, bytes) == [name |-> name, is_file |-> is_file, bytes |-> bytes]

\* std::fs::read_dir
read_dir(dir) == IF dir \in RecordingDirs THEN Ok(fsys) ELSE Err("io")

\* Path::is_file
is_file(p) ==
    /\ p.dir \in RecordingDirs
    /\ \E e \in fsys : e.name = Name(p.stem, p.ext) /\ e.is_file

\* File::open followed by reading the stream to its end: the bytes of a
\* regular file, an I/O error for anything else.
FileOpen(p) ==
    IF is_file(p)
    THEN Ok((CHOOSE e \in fsys : e.name = Name(p.stem, p.ext)).bytes)
    ELSE Err("io")

----------------------------------------------------------------------------
\* The versioned binary decoder (crate::data), from the specification:
\* fixed-size records read one at a time until the stream is exhausted, a
\* trailing partial record being a decode error. A record is a timestamp
\* byte followed by a sample byte.

Versions == {"V1"}
RecordSize == 2

DecodeRecord(bytes, k) == [ms |-> bytes[RecordSize * k - 1], val |-> bytes[RecordSize * k]]

\* Data::read_extend / Temp::read_extend: append the stream's records to log.
read_extend(log, bytes, v) ==
    IF Len(bytes) % RecordSize # 0
    THEN Err("decode")
    ELSE Ok(log \o [k \in 1..(Len(bytes) \div RecordSize) |-> DecodeRecord(bytes, k)])

\* The channel accessors (DataEntry::power_fl, TempEntry::temp_fl, ...): the
\* entry's sample, when the channel exists under the schema version.
Accessor(chan, e) == Some(e.val)

\* MapOverTime::map_over_time: the (timestamp, value) pairs of the entries in
\* log order, skipping the entries for which the accessor is absent.
RECURSIVE map_over_time(_, _)
map_over_time(log, chan) ==
    IF log = <<>> THEN <<>>
    ELSE LET e == Head(log)
             x == Accessor(chan, e)
         IN  (IF x = None THEN <<>> ELSE <<(<<e.ms, x[1]>>)>>) \o map_over_time(Tail(log), chan)

\* app::WheelValues built from one accessor per wheel.
WheelValues(log, chan) ==
    [fl |-> map_over_time(log, <<chan, "fl">>),
     fr |-> map_over_time(log, <<chan, "fr">>),
     rl |-> map_over_time(log, <<chan, "rl">>),
     rr |-> map_over_time(log, <<chan, "rr">>)]

----------------------------------------------------------------------------
\* The formula evaluator (crate::eval), from the specification: an
\* identifier resolves to one of the fixed channel names at evaluation time,
\* an unknown identifier is a named error scoped to that formula.

DataChannels == {"power_fl"}
TempChannels == {"temp_fl"}
ExprPool == {"power_fl", "temp_fl", "nope"}

\* plot::CustomPlot
CustomPlot(expr) == [expr |-> expr]

\* eval::eval
eval(expr, d, t) ==
    IF expr \in DataChannels THEN Ok(map_over_time(d, <<"power", "fl">>))
    ELSE IF expr \in TempChannels THEN Ok(map_over_time(t, <<"temp", "fl">>))
    ELSE Err(<<"unknown identifier", expr>>)

\* app::CustomValues::from_result
from_result(r) ==
    IF r.ok THEN [kind |-> "Values", values |-> r.val, error |-> <<>>]
    ELSE [kind |-> "Error", values |-> <<>>, error |-> r.err]

----------------------------------------------------------------------------
\* find_files (fs.rs 113-149).

\* Files (fs.rs 15-18) and Files::default()
Files(d, t) == [data |-> d, temp |-> t]
FilesDefault == Files(<<>>, None)

\* fn filename (fs.rs 114-119): the stem of a path with extension "bin".
filename(p) ==
    IF p.ext = None THEN None
    ELSE IF p.ext[1] # ExtBin THEN None
    ELSE IF IsUtf8(p.stem) THEN Some(p.stem) ELSE None

RECURSIVE DigitsValue(_, _)
DigitsValue(ds, acc) ==
    IF ds = <<>> THEN acc ELSE DigitsValue(Tail(ds), acc * 10 + (Head(ds) - 48))

\* name.parse::<usize>() (fs.rs 133): decimal digits after an optional "+".
\* The names of the model are far shorter than the 20 digits that overflow.
parse_usize(s) ==
    LET ds == IF s # <<>> /\ s[1] = 43 THEN Tail(s) ELSE s
    IN  IF ds = <<>> \/ \E i \in DOMAIN ds : ds[i] < 48 \/ ds[i] > 57
        THEN Err("invalid digit")
        ELSE Ok(DigitsValue(ds, 0))

\* Byte-wise comparison of two names, as a textual sort would order them.
RECURSIVE TextLess(_, _)
TextLess(a, b) ==
    IF b = <<>> THEN FALSE
    ELSE IF a = <<>> THEN TRUE
    ELSE IF Head(a) # Head(b) THEN Head(a) < Head(b)
    ELSE TextLess(Tail(a), Tail(b))

\* Faulty variant: the position is found by comparing the names as text.
RECURSIVE InsertIndexTextual(_, _, _)
InsertIndexTextual(paths, n, p) ==
    IF paths = <<>> \/ TextLess(p.stem, paths[1][2].stem) THEN 0
    ELSE 1 + InsertIndexTextual(Tail(paths), n, p)

\* Faulty variant: the new path always goes to the end of the list.
InsertIndexAppend(paths, n, p) == Len(paths)

\* The scan of fs.rs 134-140: the number of leading pairs (k, _) of paths that
\* the loop passes before it meets one with n < k. p is the path to insert,
\* which the scan does not look at.
RECURSIVE InsertIndex(_, _, _)
InsertIndex(paths, n, p) ==
    IF paths = <<>> \/ n < paths[1][1] THEN 0
    ELSE 1 + InsertIndex(Tail(paths), n, p)

\* Vec::insert (fs.rs 141)
Insert(s, i, x) == SubSeq(s, 1, i) \o <<x>> \o SubSeq(s, i + 1, Len(s))

\* The loop body of fs.rs 125-143 for one directory entry; acc is the pair of
\* files.temp and paths.
FindEntry(dir, e, acc) ==
    LET path == PathOf(dir, e.name)
        name == filename(path)
    IN  IF ~is_file(path) THEN acc
        ELSE IF name = None THEN acc
        ELSE IF name[1] = Temperature THEN [acc EXCEPT !.temp = Some(path)]
        ELSE LET n == parse_usize(name[1])
             IN  IF ~n.ok THEN acc
                 ELSE [acc EXCEPT !.paths =
                          Insert(@, InsertIndex(@, n.val, path), <<n.val, path>>)]

\* The loop of fs.rs 123-144 from entry k of the enumeration on; broken is the
\* position of the entry whose read fails (entry?), 0 when none does.
RECURSIVE FindLoop(_, _, _, _, _)
FindLoop(dir, order, k, broken, acc) ==
    IF k > Len(order) THEN Ok(acc)
    ELSE IF k = broken THEN Err("io")
    ELSE FindLoop(dir, order, k + 1, broken, FindEntry(dir, order[k], acc))

\* find_files: order is the order in which read_dir enumerates the directory.
find_files(dir, order, broken) ==
    IF ~read_dir(dir).ok THEN Err("io")
    ELSE LET r == FindLoop(dir, order, 1, broken, [temp |-> None, paths |-> <<>>])
         IN  IF ~r.ok THEN Err(r.err)
             ELSE Ok(Files([i \in DOMAIN r.val.paths |-> r.val.paths[i][2]], r.val.temp))

----------------------------------------------------------------------------
\* open_files (fs.rs 151-246) and its helpers.

\* app::Error
AppError(file, msg) == [file |-> file, msg |-> msg]

\* Faulty variant: each file is decoded into a fresh log, which replaces the old one.
open_data_replace(log, p, v) ==
    LET f == FileOpen(p)
    IN  IF ~f.ok THEN Err(f.err) ELSE read_extend(<<>>, f.val, v)

\* open_data (fs.rs 248-252): the log extended by the file's records.
open_data(log, p, v) ==
    LET f == FileOpen(p)
    IN  IF ~f.ok THEN Err(f.err) ELSE read_extend(log, f.val, v)

\* open_temp (fs.rs 254-258)
open_temp(log, p, v) ==
    LET f == FileOpen(p)
    IN  IF ~f.ok THEN Err(f.err) ELSE read_extend(log, f.val, v)

\* The outcome of a reading stage: the log read so far, the session-level
\* error if it failed, and the paths it opened, in order.
Stage(ok, log, err, op) == [ok |-> ok, log |-> log, err |-> err, opened |-> op]

\* Faulty variant: a failing segment is reported but the loop reads on.
RECURSIVE ReadSegmentsOn(_, _, _, _)
ReadSegmentsOn(paths, d, op, v) ==
    IF paths = <<>> THEN Stage(TRUE, d, <<>>, op)
    ELSE LET p == Head(paths)
             r == open_data(d, p, v)
             rest == ReadSegmentsOn(Tail(paths), IF r.ok THEN r.val ELSE d, Append(op, p), v)
         IN  IF r.ok THEN rest
             ELSE Stage(FALSE, <<>>,
                        AppError(unwrap_or_default(to_str(p)), r.err), rest.opened)

\* The loop of fs.rs 157-164 over files.data, from the log d on.
RECURSIVE ReadSegments(_, _, _, _)
ReadSegments(paths, d, op, v) ==
    IF paths = <<>> THEN Stage(TRUE, d, <<>>, op)
    ELSE LET p == Head(paths)
             r == open_data(d, p, v)
         IN  IF ~r.ok
             THEN Stage(FALSE, <<>>,
                        AppError(unwrap_or_default(to_str(p)), r.err), Append(op, p))
             ELSE ReadSegments(Tail(paths), r.val, Append(op, p), v)

\* Faulty variant: a file set without a temperature file is an error.
ReadTempRequired(temp, op, v) ==
    IF temp = None THEN Stage(FALSE, <<>>, AppError(<<>>, "io"), op)
    ELSE LET p == temp[1]
             r == open_temp(<<>>, p, v)
         IN  IF ~r.ok
             THEN Stage(FALSE, <<>>,
                        AppError(unwrap_or_default(to_str(p)), r.err), Append(op, p))
             ELSE Stage(TRUE, r.val, <<>>, Append(op, p))

\* fs.rs 166-174: the temperature log, empty when files.temp is None.
ReadTemp(temp, op, v) ==
    IF temp = None THEN Stage(TRUE, <<>>, <<>>, op)
    ELSE LET p == temp[1]
             r == open_temp(<<>>, p, v)
         IN  IF ~r.ok
             THEN Stage(FALSE, <<>>,
                        AppError(unwrap_or_default(to_str(p)), r.err), Append(op, p))
             ELSE Stage(TRUE, r.val, <<>>, Append(op, p))

\* The outcome of evaluating the custom formulas: the results collected and
\* the formulas handed to eval::eval, in order.
Customs(vals, ev) == [vals |-> vals, evals |-> ev]

\* Faulty variant: the first failing formula ends the evaluation.
RECURSIVE EvalCustomUntilError(_, _, _)
EvalCustomUntilError(plots, d, t) ==
    IF plots = <<>> THEN Customs(<<>>, <<>>)
    ELSE LET r == eval(Head(plots).expr, d, t)
             rest == IF r.ok THEN EvalCustomUntilError(Tail(plots), d, t)
                     ELSE Customs(<<>>, <<>>)
         IN  Customs(<<from_result(r)>> \o rest.vals, <<Head(plots).expr>> \o rest.evals)

\* fs.rs 221-227: custom_plots.iter().map(..).collect()
RECURSIVE EvalCustom(_, _, _)
EvalCustom(plots, d, t) ==
    IF plots = <<>> THEN Customs(<<>>, <<>>)
    ELSE LET r == eval(Head(plots).expr, d, t)
             rest == EvalCustom(Tail(plots), d, t)
         IN  Customs(<<from_result(r)>> \o rest.vals, <<Head(plots).expr>> \o rest.evals)

\* app::PlotData as built at fs.rs 176-243.
PlotData(d, t, cust) ==
    [raw_data |-> d,
     raw_temp |-> t,
     power |-> WheelValues(d, "power"),
     velocity |-> WheelValues(d, "velocity"),
     torque_set |-> WheelValues(d, "torque_set"),
     torque_real |-> WheelValues(d, "torque_real"),
     temp |-> WheelValues(t, "temp"),
     room_temp |-> WheelValues(t, "room_temp"),
     heatsink_temp |-> WheelValues(t, "heatsink_temp"),
     ams_temp_max |-> map_over_time(t, <<"ams_temp_max">>),
     water_temp_converter |-> map_over_time(t, <<"water_temp_converter">>),
     water_temp_motor |-> map_over_time(t, <<"water_temp_motor">>),
     custom |-> cust]

\* The outcome of open_files: its Result, the paths it opened and the
\* formulas it evaluated.
Opened(res, op, ev) == [res |-> res, opened |-> op, evals |-> ev]

\* open_files
open_files(f, v, plots) ==
    LET ds == ReadSegments(f.data, <<>>, <<>>, v)
    IN  IF ~ds.ok THEN Opened(Err(ds.err), ds.opened, <<>>)
        ELSE LET ts == ReadTemp(f.temp, ds.opened, v)
             IN  IF ~ts.ok THEN Opened(Err(ts.err), ts.opened, <<>>)
                 ELSE LET c == EvalCustom(plots, ds.log, ts.log)
                      IN  Opened(Ok(PlotData(ds.log, ts.log, c.vals)), ts.opened, c.evals)

----------------------------------------------------------------------------
\* The environments the application starts in.

Seg2 == Name(<<50>>, Some(ExtBin))              \* 2.bin
Seg10 == Name(<<49, 48>>, Some(ExtBin))         \* 10.bin
TempBin == Name(Temperature, Some(ExtBin))      \* temperature.bin
RecordingNames == {Seg2, Seg10, TempBin}

RECURSIVE TotalBytes(_)
TotalBytes(es) ==
    IF es = {} THEN 0
    ELSE LET e == CHOOSE x \in es : TRUE IN Len(e.bytes) + TotalBytes(es \ {e})

\* The contents of a log file of up to n bytes, whole records or not.
Contents(n) ==
    {c \in SeqsUpTo(Times \cup Samples, n) :
        \A i \in DOMAIN c : c[i] \in (IF i % 2 = 1 THEN Times ELSE Samples)}

\* A recording directory: any of the three log files, each with any
\* contents, up to MaxTotalBytes in all.
RecordingEnvs ==
    LET Held == {None} \cup {Some(c) : c \in Contents(MaxTotalBytes)}
        Pick(g) == {Entry(n, TRUE, g[n][1]) : n \in {x \in RecordingNames : g[x] # None}}
    IN  {Pick(g) : g \in {h \in [RecordingNames -> Held] : TotalBytes(Pick(h)) <= MaxTotalBytes}}

\* A directory that holds the segment index 2 twice: 2.bin with any contents
\* and 02.bin with one record.
Seg02 == Name(<<48, 50>>, Some(ExtBin))
TwinEnvs ==
    {{Entry(Seg2, TRUE, a), Entry(Seg02, TRUE, b)} :
        a \in Contents(MaxTotalBytes),
        b \in {c \in Contents(MaxTotalBytes) : Len(c) = RecordSize}}

\* The names a directory is listed with in the discovery environments:
\* 1, 2, 10 and +1 (.bin), temperature.bin, x.bin, 3.txt, a .bin name that
\* is not UTF-8 and the subdirectory 4.bin.
SubDir == Name(<<52>>, Some(ExtBin))
DirectoryNames ==
    {Name(<<49>>, Some(ExtBin)), Seg2, Seg10, Name(<<43, 49>>, Some(ExtBin)),
     TempBin, Name(<<120>>, Some(ExtBin)), Name(<<51>>, Some(ExtTxt)),
     Name(<<255>>, Some(ExtBin)), SubDir}

\* A directory of up to MaxEntries entries with any of these names, the log
\* files empty.
DirectoryEnvs ==
    {{Entry(n, n # SubDir, <<>>) : n \in S} :
        S \in {T \in SUBSET DirectoryNames : Cardinality(T) <= MaxEntries}}

\* A recording of one data record and one temperature record.
FormulaEnv == {Entry(Seg2, TRUE, <<0, 1>>), Entry(TempBin, TRUE, <<1, 1>>)}
CustomLists == SeqsUpTo({CustomPlot(x) : x \in ExprPool}, MaxCustom)

Envs ==
    ({[fsys |-> e, custom |-> <<>>] : e \in RecordingEnvs \cup TwinEnvs \cup DirectoryEnvs})
    \cup {[fsys |-> FormulaEnv, custom |-> c] : c \in CustomLists}

\* The history of the last handler that ran: whether it called find_files,
\* the directory when find_files succeeded on it, whether it called try_open
\* and on what file set.
Ran(asked, dir, tried, arg) ==
    [asked |-> asked, dir |-> dir, tried |-> tried, arg |-> arg]

Init ==
    /\ \E env \in Envs : fsys = env.fsys /\ custom = env.custom
    /\ version \in Versions
    /\ data = None
    /\ error = None
    /\ files = None
    /\ opened = <<>>
    /\ evals = <<>>
    /\ last = Ran(FALSE, None, FALSE, None)

----------------------------------------------------------------------------
\* The handlers (fs.rs 20-111).

\* Faulty variant: a failed open keeps the session that was held.
try_open_keep(f) ==
    LET r == open_files(f, version, custom)
    IN  /\ data' = IF r.res.ok THEN Some(r.res.val) ELSE data
        /\ error' = IF r.res.ok THEN None ELSE Some(r.res.err)
        /\ files' = Some(f)
        /\ opened' = r.opened
        /\ evals' = r.evals

\* Faulty variant: a failed open returns before the file set is recorded.
try_open_return(f) ==
    LET r == open_files(f, version, custom)
    IN  /\ data' = IF r.res.ok THEN Some(r.res.val) ELSE None
        /\ error' = IF r.res.ok THEN None ELSE Some(r.res.err)
        /\ files' = IF r.res.ok THEN Some(f) ELSE files
        /\ opened' = r.opened
        /\ evals' = r.evals

\* PlotApp::try_open (fs.rs 98-110)
try_open(f) ==
    LET r == open_files(f, version, custom)
    IN  /\ data' = IF r.res.ok THEN Some(r.res.val) ELSE None
        /\ error' = IF r.res.ok THEN None ELSE Some(r.res.err)
        /\ files' = Some(f)
        /\ opened' = r.opened
        /\ evals' = r.evals

\* What find_files can return for a directory: one outcome for each order of
\* enumeration and each entry whose read may fail.
FindResults(dir) ==
    IF ~read_dir(dir).ok THEN {[ok |-> FALSE, files |-> FilesDefault]}
    ELSE {LET r == find_files(dir, o, b)
          IN  [ok |-> r.ok, files |-> IF r.ok THEN r.val ELSE FilesDefault] :
             o \in Orders(fsys), b \in 0..Cardinality(fsys)}

\* Faulty variant: a directory that cannot be read clears the session and records
\* an error.
open_path_report(pick) ==
    IF pick = None
    THEN UNCHANGED <<data, error, files, opened, evals, last>>
    ELSE \E found \in FindResults(pick[1]) :
            IF found.ok
            THEN /\ try_open(found.files)
                 /\ last' = Ran(TRUE, pick, TRUE, Some(found.files))
            ELSE /\ last' = Ran(TRUE, None, FALSE, None)
                 /\ data' = None
                 /\ error' = Some(AppError(unwrap_or_default(None), "io"))
                 /\ UNCHANGED <<files, opened, evals>>

\* The shared body of fs.rs 22-26 and fs.rs 84-94: if a path was given and
\* find_files succeeds on it, try_open the files found.
open_path(pick) ==
    IF pick = None
    THEN UNCHANGED <<data, error, files, opened, evals, last>>
    ELSE \E found \in FindResults(pick[1]) :
            IF found.ok
            THEN /\ try_open(found.files)
                 /\ last' = Ran(TRUE, pick, TRUE, Some(found.files))
            ELSE /\ last' = Ran(TRUE, None, FALSE, None)
                 /\ UNCHANGED <<data, error, files, opened, evals>>

\* The file sets try_open is called with directly: both data segments of the
\* recording directory, in either order, with or without the temperature
\* file, whether or not the files are still there.
FileSets ==
    {Files([i \in DOMAIN d |-> PathOf(dir, d[i])],
           IF t THEN Some(PathOf(dir, TempBin)) ELSE None) :
        dir \in {DirOk},
        d \in {<<Seg2, Seg10>>, <<Seg10, Seg2>>},
        t \in BOOLEAN}

TryOpen ==
    \E f \in FileSets :
        /\ try_open(f)
        /\ last' = Ran(FALSE, None, TRUE, Some(f))
        /\ UNCHANGED <<fsys, custom, version>>

\* PlotApp::open_dir_dialog (fs.rs 21-27): pick is what the folder dialog
\* returned.
open_dir_dialog ==
    \E pick \in {None} \cup {Some(d) : d \in Dirs} :
        /\ open_path(pick)
        /\ UNCHANGED <<fsys, custom, version>>

\* The paths of the files dropped on the window, None for a drop without one.
MaxDropped == 2
DroppedLists == SeqsUpTo({None} \cup {Some(d) : d \in Dirs}, MaxDropped)

\* dropped_files.first().and_then(|f| f.path.as_ref()) (fs.rs 84-89)
FirstPath(dropped) == IF dropped = <<>> THEN None ELSE dropped[1]

\* PlotApp::detect_files_being_dropped (fs.rs 29-96): the handler acts on the
\* first dropped file's path, when there is one. The preview of hovered files
\* (fs.rs 31-80) paints and writes no field.
detect_files_being_dropped ==
    \E pick \in {FirstPath(dropped) : dropped \in DroppedLists} :
        /\ open_path(pick)
        /\ UNCHANGED <<fsys, custom, version>>

Next == TryOpen \/ open_dir_dialog \/ detect_files_being_dropped

Spec == Init /\ [][Next]_vars

----------------------------------------------------------------------------
\* What the claims speak of.

\* The order in which open_files processes a file set.
ProcessingOrder(f) == f.data \o (IF f.temp = None THEN <<>> ELSE <<f.temp[1]>>)

\* The bytes on disk at a path, None when no regular file is there.
OnDisk(p) ==
    IF p.dir \in RecordingDirs /\ \E e \in fsys : e.name = Name(p.stem, p.ext) /\ e.is_file
    THEN Some((CHOOSE e \in fsys : e.name = Name(p.stem, p.ext)).bytes)
    ELSE None

\* A file opens and decodes when it is there and holds whole records only.
Decodes(p) == OnDisk(p) # None /\ Len(OnDisk(p)[1]) % RecordSize = 0
FailureReason(p) == IF OnDisk(p) = None THEN "io" ELSE "decode"

\* The position of the first file of the set that fails, 0 when none does.
FirstFailure(f) ==
    LET ord == ProcessingOrder(f)
        bad == {i \in DOMAIN ord : ~Decodes(ord[i])}
    IN  IF bad = {} THEN 0 ELSE CHOOSE i \in bad : \A j \in bad : i <= j

\* The timestamps a file holds, in file order.
Stamps(bytes) == [k \in 1..(Len(bytes) \div RecordSize) |-> bytes[RecordSize * k - 1]]

NonDecreasing(s) == \A i, j \in DOMAIN s : i < j => s[i] <= s[j]

\* The data segments of the listing: the regular files named <integer>.bin.
IsSegment(e) ==
    /\ e.is_file
    /\ e.name.ext = Some(ExtBin)
    /\ IsUtf8(e.name.stem)
    /\ e.name.stem # Temperature
    /\ parse_usize(e.name.stem).ok
Segments == {e \in fsys : IsSegment(e)}
Index(e) == parse_usize(e.name.stem).val

----------------------------------------------------------------------------
\* C1: when the file at position i of the processing order (data segments in
\* list order, then the temperature file) is the first that fails to open or
\* decode, open_files returns an error, exactly the files up to position i
\* were opened (none after it), and try_open holds no PlotData.
C1_AllOrNothing ==
    last.tried =>
        LET f == last.arg[1]
            k == FirstFailure(f)
        IN  k # 0 =>
                /\ error # None
                /\ data = None
                /\ opened = SubSeq(ProcessingOrder(f), 1, k)

\* A failed open whose failing file is followed by a file that is on disk.
C1_Witness ==
    /\ last.tried
    /\ LET f == last.arg[1]
           k == FirstFailure(f)
       IN  /\ k # 0
           /\ k < Len(ProcessingOrder(f))
           /\ \A j \in (k + 1)..Len(ProcessingOrder(f)) : Decodes(ProcessingOrder(f)[j])
    /\ data = None

\* C2: for every directory and every order of enumeration, find_files returns
\* exactly the data segments of the directory, each once, in ascending
\* numeric value of their integer base names (not in textual order), and the
\* path of temperature.bin as the temperature segment.
C2_NumericOrder ==
    (last.tried /\ last.dir # None) =>
        LET dir == last.dir[1]
            f == last.arg[1]
            value(p) == parse_usize(p.stem).val
        IN  /\ Len(f.data) = Cardinality(Segments)
            /\ {f.data[i] : i \in DOMAIN f.data} = {PathOf(dir, e.name) : e \in Segments}
            /\ \A i, j \in DOMAIN f.data : i < j => value(f.data[i]) <= value(f.data[j])
            /\ f.temp = IF \E e \in fsys : e.name = TempBin /\ e.is_file
                        THEN Some(PathOf(dir, TempBin)) ELSE None

\* A directory found with a temperature file and two data segments whose
\* numeric order is the reverse of their textual order.
C2_Witness ==
    /\ last.tried
    /\ last.dir # None
    /\ last.arg[1].temp # None
    /\ \E i, j \in DOMAIN last.arg[1].data :
          /\ i < j
          /\ parse_usize(last.arg[1].data[i].stem).val < parse_usize(last.arg[1].data[j].stem).val
          /\ TextLess(last.arg[1].data[j].stem, last.arg[1].data[i].stem)

\* C3: when every file of the set decodes, the session is built whatever the
\* formulas do; each of the N custom formulas is evaluated exactly once, in
\* the order of the definitions; the custom list has N results; slot i is an
\* error exactly when formula i names no known channel, and is what formula i
\* yields when it is the only formula.
C3_FormulasIndependent ==
    (last.tried /\ FirstFailure(last.arg[1]) = 0) =>
        /\ data # None
        /\ error = None
        /\ evals = [i \in DOMAIN custom |-> custom[i].expr]
        /\ Len(data[1].custom) = Len(custom)
        /\ \A i \in DOMAIN custom :
              /\ (data[1].custom[i].kind = "Error")
                    <=> (custom[i].expr \notin DataChannels \cup TempChannels)
              /\ data[1].custom[i].kind = "Error" => data[1].custom[i].error[2] = custom[i].expr
              /\ data[1].custom[i] =
                    open_files(last.arg[1], version, <<custom[i]>>).res.val.custom[1]

\* A session built with a failing formula ahead of a formula that succeeds
\* with a series that is not empty.
C3_Witness ==
    /\ last.tried
    /\ data # None
    /\ Len(custom) = 2
    /\ data[1].custom[1].kind = "Error"
    /\ data[1].custom[2].kind = "Values"
    /\ data[1].custom[2].values # <<>>

\* C4: whenever open_files fails, the error's file field is the path of the
\* first file in processing order that failed to open or decode, and its
\* message is that failure's reason.
C4_ErrorNamesFile ==
    last.tried =>
        LET f == last.arg[1]
            k == FirstFailure(f)
        IN  k # 0 =>
                /\ error # None
                /\ error[1].file = PathBytes(ProcessingOrder(f)[k])
                /\ error[1].msg = FailureReason(ProcessingOrder(f)[k])

\* C5: after find_files followed by a successful open_files, the timestamps
\* of the primary log are non-decreasing, provided the segments are
\* chronologically contiguous: the timestamps of each segment are
\* non-decreasing, and whenever the index of one segment is at most the index
\* of another, none of its timestamps is later than any of the other's (so
\* that every ascending-index arrangement of the files is chronological).
Chronological ==
    /\ \A e \in Segments : NonDecreasing(Stamps(e.bytes))
    /\ \A a, b \in Segments :
          (a # b /\ Index(a) <= Index(b)) =>
              \A i \in DOMAIN Stamps(a.bytes), j \in DOMAIN Stamps(b.bytes) :
                  Stamps(a.bytes)[i] <= Stamps(b.bytes)[j]

C5_TimestampsNonDecreasing ==
    (last.tried /\ last.dir # None /\ data # None /\ Chronological) =>
        NonDecreasing([i \in DOMAIN data[1].raw_data |-> data[1].raw_data[i].ms])

\* A session assembled from the segments 2 and 10, the later timestamp in 10.
C5_Witness ==
    /\ last.tried
    /\ last.dir # None
    /\ data # None
    /\ Chronological
    /\ Len(last.arg[1].data) = 2
    /\ TextLess(last.arg[1].data[2].stem, last.arg[1].data[1].stem)
    /\ Len(data[1].raw_data) = 2
    /\ data[1].raw_data[1].ms < data[1].raw_data[2].ms

\* C6: decoding two data segments one after the other into the same log
\* yields the entries, in the order, that decoding one segment holding the
\* records of the first followed by the records of the second yields.
C6_SequentialIsConcatenation ==
    (/\ last.tried
     /\ Len(last.arg[1].data) = 2
     /\ Decodes(last.arg[1].data[1])
     /\ Decodes(last.arg[1].data[2])
     /\ data # None) =>
        data[1].raw_data =
            read_extend(<<>>, OnDisk(last.arg[1].data[1])[1] \o OnDisk(last.arg[1].data[2])[1],
                        version).val

\* A session built from two segments that each hold a record, the two
\* records different.
C6_Witness ==
    /\ last.tried
    /\ data # None
    /\ Len(last.arg[1].data) = 2
    /\ OnDisk(last.arg[1].data[1]) # None
    /\ OnDisk(last.arg[1].data[2]) # None
    /\ OnDisk(last.arg[1].data[1])[1] # <<>>
    /\ OnDisk(last.arg[1].data[2])[1] # <<>>
    /\ OnDisk(last.arg[1].data[1])[1] # OnDisk(last.arg[1].data[2])[1]

\* C7: when the file set has no temperature file and every data segment
\* decodes, open_files succeeds, no error is reported, the temperature log of
\* the session is empty and so is every series derived from it.
C7_NoTemperatureFile ==
    (last.tried /\ last.arg[1].temp = None /\ FirstFailure(last.arg[1]) = 0) =>
        /\ error = None
        /\ data # None
        /\ data[1].raw_temp = <<>>
        /\ \A w \in {"fl", "fr", "rl", "rr"} :
              /\ data[1].temp[w] = <<>>
              /\ data[1].room_temp[w] = <<>>
              /\ data[1].heatsink_temp[w] = <<>>
        /\ data[1].ams_temp_max = <<>>
        /\ data[1].water_temp_converter = <<>>
        /\ data[1].water_temp_motor = <<>>

\* A session built without a temperature file from data that is not empty,
\* while a temperature file with a record lies in the directory.
C7_Witness ==
    /\ last.tried
    /\ last.arg[1].temp = None
    /\ data # None
    /\ data[1].raw_data # <<>>
    /\ data[1].raw_temp = <<>>
    /\ \E e \in fsys : e.name = TempBin /\ Len(e.bytes) = RecordSize

\* What try_open leaves in the data field for a file set.
SessionOf(f) ==
    LET r == open_files(f, version, custom).res
    IN  IF r.ok THEN Some(r.val) ELSE None

\* C8 as stated: the held session changes only by a successful open, which
\* replaces it.
C8_ReplacedOnlyBySuccess ==
    [][data' # data => (last'.tried /\ data' # None)]_vars

\* C8 as amended: the data field changes only in try_open, and every try_open
\* replaces it as a whole: by that open's result when the open succeeds, by
\* nothing when it fails (the session held before is discarded either way).
C8_ReplacedByEveryOpen ==
    [][/\ last'.tried => data' = SessionOf(last'.arg[1])
       /\ ~last'.tried => data' = data]_vars

\* A failed open in a directory from which a session with data can be built:
\* no session is held.
C8_Witness ==
    /\ last.tried
    /\ data = None
    /\ error # None
    /\ \E f \in FileSets : SessionOf(f) # None /\ SessionOf(f)[1].raw_data # <<>>

\* C9: after every try_open exactly one of the data and error fields is set,
\* data when the open succeeded and error when it failed, and the files field
\* holds the file set that was tried.
C9_DataXorError ==
    last.tried =>
        /\ (data = None) # (error = None)
        /\ (data # None) <=> (FirstFailure(last.arg[1]) = 0)
        /\ files = last.arg

\* A failed try_open: the error is set and the file set is recorded.
C9_Witness ==
    /\ last.tried
    /\ error # None
    /\ data = None
    /\ files = last.arg
    /\ last.arg[1].data # <<>>

\* C10: a handler whose find_files fails calls no try_open and leaves the
\* data, error and files fields as they were.
C10_FindFailureChangesNothing ==
    [][(last'.asked /\ ~last'.tried) => UNCHANGED <<data, error, files, opened, evals>>]_vars

\* find_files failed while a session was held: the session is still held.
C10_Witness ==
    /\ last.asked
    /\ ~last.tried
    /\ data # None
    /\ data[1].raw_data # <<>>
    /\ error = None

====
